---- MODULE Spec2Model ----
(***************************************************************************)
(* real_db: a stack-based query language compiled to bytecode (query.rs)   *)
(* and executed by a VM (lib.rs) against an in-memory multi-table record   *)
(* store (intrinsics.rs) shared by worker threads under one Mutex.         *)
(*                                                                         *)
(* Text is modelled as a sequence of ASCII codes, so that to_lowercase,    *)
(* split(':') and the integer parsers are computed, not assumed.           *)
(* Program indices are 0-based as in the source: At(s, i) is s[i].         *)
(***************************************************************************)
EXTENDS Integers, Sequences, FiniteSets, TLC

VARIABLES db, poisoned, lock, pc, req, vm, resp, dbAtStart, dbAtReturn,
          steps, served, setLog

vars == <<db, poisoned, lock, pc, req, vm, resp, dbAtStart, dbAtReturn,
          steps, served, setLog>>

(***************************************************************************)
(* Bounds of the model.                                                    *)
(***************************************************************************)
\* requests a worker pool serves in one behaviour
MaxRequests == 3
\* VM instructions one execution may take in the specifications that count them
MaxSteps == 40
\* largest count N of a generated `range N` request
MaxRange == 3
\* most tokens of a generated request of the compiler specification
MaxTokens == 6
\* most characters of a generated text of the lexer specification
MaxText == 6

(***************************************************************************)
(* Text                                                                    *)
(***************************************************************************)
At(s, i) == s[i + 1]

\* char::to_lowercase on ASCII: 'A'..'Z' (65..90) map to 'a'..'z'
LowerChar(c) == IF c >= 65 /\ c <= 90 THEN c + 32 ELSE c

\* str::to_lowercase
ToLower(s) == [k \in 1..Len(s) |-> LowerChar(s[k])]

IsDigit(c) == c >= 48 /\ c <= 57

RECURSIVE DigitsValue(_, _)
\* the decimal value of an all-digit text, acc carrying the digits read so far
DigitsValue(s, acc) ==
    IF s = <<>> THEN acc ELSE DigitsValue(Tail(s), acc * 10 + (Head(s) - 48))

AllDigits(s) == s # <<>> /\ \A k \in 1..Len(s) : IsDigit(s[k])

\* str::parse::<u64>: an optional '+', then digits; [ok, n].  The texts of the
\* model are a few characters long, far from the 20 digits that overflow.
ParseU64(s) ==
    LET body == IF s # <<>> /\ Head(s) = 43 THEN Tail(s) ELSE s
    IN  IF AllDigits(body)
        THEN [ok |-> TRUE, n |-> DigitsValue(body, 0)]
        ELSE [ok |-> FALSE, n |-> 0]

\* str::parse::<i64>: an optional '+' or '-', then digits; [ok, n]
ParseI64(s) ==
    LET neg  == s # <<>> /\ Head(s) = 45
        body == IF s # <<>> /\ (Head(s) = 43 \/ Head(s) = 45) THEN Tail(s) ELSE s
        n    == IF neg THEN 0 - DigitsValue(body, 0) ELSE DigitsValue(body, 0)
    IN  IF AllDigits(body)
        THEN [ok |-> TRUE, n |-> n]
        ELSE [ok |-> FALSE, n |-> 0]

RECURSIVE SplitColon(_, _, _)
\* str::split(':'): the parts of s, cur being the part under construction
SplitColon(s, cur, parts) ==
    IF s = <<>> THEN Append(parts, cur)
    ELSE IF Head(s) = 58 THEN SplitColon(Tail(s), <<>>, Append(parts, cur))
    ELSE SplitColon(Tail(s), Append(cur, Head(s)), parts)

RECURSIVE SeqLess(_, _)
\* the derived lexicographic order of String (byte-wise)
SeqLess(a, b) ==
    IF b = <<>> THEN FALSE
    ELSE IF a = <<>> THEN TRUE
    ELSE IF Head(a) # Head(b) THEN Head(a) < Head(b)
    ELSE SeqLess(Tail(a), Tail(b))

(***************************************************************************)
(* Value (lib.rs): Id(RecordId) | Int | Float | String, as one record      *)
(* shape; the fields a variant does not use hold a fixed filler.           *)
(* A Float holds its value in tenths.                                      *)
(***************************************************************************)
IdV(t, r)  == [tag |-> "Id", table |-> t, row |-> r, n |-> 0, s |-> <<>>]
IntV(n)    == [tag |-> "Int", table |-> <<>>, row |-> 0, n |-> n, s |-> <<>>]
FloatV(n)  == [tag |-> "Float", table |-> <<>>, row |-> 0, n |-> n, s |-> <<>>]
StrV(s)    == [tag |-> "String", table |-> <<>>, row |-> 0, n |-> 0, s |-> s]

\* position of a variant in the declaration of Value
VariantRank(v) ==
    CASE v.tag = "Id" -> 0
      [] v.tag = "Int" -> 1
      [] v.tag = "Float" -> 2
      [] v.tag = "String" -> 3

\* #[derive(PartialOrd)] on Value and RecordId: variants by declaration order,
\* same variants by payload (RecordId: table_name, then row)
ValueLess(a, b) ==
    IF a.tag # b.tag THEN VariantRank(a) < VariantRank(b)
    ELSE CASE a.tag = "Id" ->
                 \/ SeqLess(a.table, b.table)
                 \/ a.table = b.table /\ a.row < b.row
           [] a.tag = "String" -> SeqLess(a.s, b.s)
           [] OTHER -> a.n < b.n

\* the text of the field every record is created with
IdKey == <<105, 100>>

\* DEFAULT_TABLE = "0"
DEFAULT_TABLE == <<48>>

(***************************************************************************)
(* Operation and Program (query.rs), one record shape: arg is the value of *)
(* a Push, value and end the fields of a Range, pos the target of a Jump.  *)
(***************************************************************************)
MkOp(op) == [op |-> op, arg |-> IntV(0), value |-> 0, end |-> 0, pos |-> 0]
OpPush(v) == [MkOp("Push") EXCEPT !.arg = v]
OpRange(value, end) == [MkOp("Range") EXCEPT !.value = value, !.end = end]
OpJump(pos) == [MkOp("Jump") EXCEPT !.pos = pos]

\* Token: the word and its kind (line and col only feed error texts)
Tok(kind, word) == [kind |-> kind, word |-> word]

\* char::is_whitespace, on ASCII: tab, line feed, vertical tab, form feed,
\* carriage return and space
IsWhitespace(c) == c \in {9, 10, 11, 12, 13, 32}

RECURSIVE TrimStart(_)
TrimStart(s) == IF s # <<>> /\ IsWhitespace(Head(s)) THEN TrimStart(Tail(s)) ELSE s

RECURSIVE TrimEnd(_)
TrimEnd(s) ==
    IF s # <<>> /\ IsWhitespace(s[Len(s)]) THEN TrimEnd(SubSeq(s, 1, Len(s) - 1)) ELSE s

\* str::trim
Trim(s) == TrimEnd(TrimStart(s))

RECURSIVE Split(_, _, _, _)
\* str::split(sep): the parts of s, cur being the part under construction
Split(s, sep, cur, parts) ==
    IF s = <<>> THEN Append(parts, cur)
    ELSE IF Head(s) = sep THEN Split(Tail(s), sep, <<>>, Append(parts, cur))
    ELSE Split(Tail(s), sep, Append(cur, Head(s)), parts)

\* str::parse::<f64>().is_ok() on a lower-case text: an optional sign, then
\* inf, infinity, nan, or digits with an optional '.' (a digit on one side of
\* it at least) and an optional exponent e[+-]digits
IsF64(s) ==
    LET signed(t) == t # <<>> /\ (Head(t) = 43 \/ Head(t) = 45)
        body == IF signed(s) THEN Tail(s) ELSE s
        ep   == Split(body, 101, <<>>, <<>>)
        mp   == Split(ep[1], 46, <<>>, <<>>)
        digitsOrNone(t) == t = <<>> \/ AllDigits(t)
        mantissa == \/ Len(mp) = 1 /\ AllDigits(mp[1])
                    \/ /\ Len(mp) = 2
                       /\ digitsOrNone(mp[1]) /\ digitsOrNone(mp[2])
                       /\ mp[1] \o mp[2] # <<>>
        exponent == \/ Len(ep) = 1
                    \/ Len(ep) = 2
                       /\ AllDigits(IF signed(ep[2]) THEN Tail(ep[2]) ELSE ep[2])
    IN  \/ body \in {<<105, 110, 102>>, <<110, 97, 110>>,
                     <<105, 110, 102, 105, 110, 105, 116, 121>>}
        \/ mantissa /\ exponent

\* match_token_kind
match_token_kind(w) ==
    LET word == ToLower(w) IN
    CASE word = <<43>> -> "Plus"
      [] word = <<45>> -> "Minus"
      [] word = <<115, 101, 116>> -> "Set"
      [] word = <<115, 101, 108, 101, 99, 116>> -> "Select"
      [] word = <<115, 101, 108, 101, 99, 116, 95, 97, 108, 108>> -> "SelectAll"
      [] word = <<102, 105, 108, 116, 101, 114>> -> "Filter"
      [] word = <<100, 114, 111, 112>> -> "Drop"
      [] word = <<114, 97, 110, 103, 101>> -> "Range"
      [] word = <<105, 116>> -> "It"
      [] word = <<100, 111>> -> "Do"
      [] word = <<101, 110, 100>> -> "End"
      [] OTHER ->
           IF word # <<>> /\ Head(word) = 34 /\ word[Len(word)] = 34 THEN "String"
           ELSE IF ParseI64(word).ok THEN "Int"
           ELSE IF IsF64(word) THEN "Float"
           ELSE IF word # <<>> /\ Head(word) = 64 /\ Len(Split(word, 58, <<>>, <<>>)) = 2
           THEN "Id"
           ELSE "Word"

\* flush_token: the word, trimmed, becomes a token and word is cleared; a
\* word of white space alone is left as it is
flush_token(tokens, word) ==
    LET w == Trim(word) IN
    IF w = <<>> THEN [tokens |-> tokens, word |-> word]
    ELSE [tokens |-> Append(tokens, Tok(match_token_kind(w), w)), word |-> <<>>]

\* the locals of tokenize before its loop
LexInit == [tokens |-> <<>>, word |-> <<>>, is_str |-> FALSE, is_comment |-> FALSE]

\* the `match ch` of the loop of tokenize: a space, line feed or carriage
\* return outside a string flushes the word, a line feed ends a comment, a
\* '#' starts one, a '"' enters or leaves a string
LexMatch(lx, ch) ==
    LET flushed == IF ch \in {32, 10, 13} /\ ~lx.is_str
                   THEN flush_token(lx.tokens, lx.word)
                   ELSE [tokens |-> lx.tokens, word |-> lx.word]
    IN  [tokens |-> flushed.tokens,
         word |-> flushed.word,
         is_str |-> IF ch = 34 THEN ~lx.is_str ELSE lx.is_str,
         is_comment |-> IF ch = 10 THEN FALSE ELSE IF ch = 35 THEN TRUE
                        ELSE lx.is_comment]

RECURSIVE TokenizeFrom(_, _)
\* the loop of tokenize over the characters left, then the last flush
TokenizeFrom(chars, lx) ==
    IF chars = <<>> THEN flush_token(lx.tokens, lx.word).tokens
    ELSE LET matched == LexMatch(lx, Head(chars)) IN
         IF ~matched.is_comment
         THEN TokenizeFrom(Tail(chars), [matched EXCEPT !.word = Append(@, Head(chars))])
         ELSE TokenizeFrom(Tail(chars), matched)

\* tokenize
tokenize(contents) == TokenizeFrom(contents, LexInit)

\* the tenths a `d.d` text denotes (the only Float texts of the model)
ParseTenths(word) ==
    LET parts == [k \in 1..Len(word) |-> IF word[k] = 46 THEN 58 ELSE word[k]]
        sp    == SplitColon(parts, <<>>, <<>>)
    IN  IF Len(sp) = 2 /\ AllDigits(sp[1]) /\ AllDigits(sp[2]) /\ Len(sp[2]) = 1
        THEN DigitsValue(sp[1], 0) * 10 + DigitsValue(sp[2], 0)
        ELSE 0

ParseOk(program) == [status |-> "ok", program |-> program]
ParseErr(why) == [status |-> why, program |-> <<>>]

\* the keyword kinds parse pushes as one Operation each
KeywordOp(kind) ==
    CASE kind = "Set" -> "Set"
      [] kind = "Select" -> "Select"
      [] kind = "SelectAll" -> "SelectAll"
      [] kind = "Filter" -> "Filter"
      [] kind = "Drop" -> "Drop"
      [] kind = "Plus" -> "Add"
      [] kind = "Minus" -> "Subtract"

\* InScope, were `it` accepted anywhere
InScopeAlways(scopes) == TRUE

\* scopes.last().is_some(): a range block is open
InScope(scopes) == scopes # <<>>

\* RangeEnd, were the exit of a block its own Jump
RangeEndAtJump(program) == Len(program)

\* the end an `end` token gives its Range: the index after the Jump it pushes
RangeEnd(program) == Len(program) + 1

RECURSIVE ParseFrom(_, _, _, _, _)
\* the loop of parse from token index i: program and scopes as built so far,
\* rnd the values the random source has yet to yield.
\* status: "ok", "err" (an Err is returned) or "panic" (the thread panics)
ParseFrom(tokens, i, program, scopes, rnd) ==
    IF i >= Len(tokens) THEN ParseOk(Append(program, MkOp("End")))
    ELSE
    LET token == At(tokens, i) IN
    CASE token.kind = "Id" ->
           LET parts == SplitColon(token.word, <<>>, <<>>) IN
           IF Len(parts) # 2 THEN ParseErr("err")
           ELSE IF parts[2] = <<95>>
           THEN ParseFrom(tokens, i + 1,
                          Append(program, OpPush(IdV(parts[1], Head(rnd)))),
                          scopes, Tail(rnd))
           ELSE IF ParseU64(parts[2]).ok
           THEN ParseFrom(tokens, i + 1,
                          Append(program, OpPush(IdV(parts[1], ParseU64(parts[2]).n))),
                          scopes, rnd)
           ELSE ParseErr("err")
      [] token.kind = "String" ->
           \* strip_prefix('"') and strip_suffix('"')
           IF Len(token.word) < 2 THEN ParseErr("panic")
           ELSE ParseFrom(tokens, i + 1,
                          Append(program,
                                 OpPush(StrV(SubSeq(token.word, 2, Len(token.word) - 1)))),
                          scopes, rnd)
      [] token.kind = "Int" ->
           ParseFrom(tokens, i + 1,
                     Append(program, OpPush(IntV(ParseI64(token.word).n))), scopes, rnd)
      [] token.kind = "Float" ->
           ParseFrom(tokens, i + 1,
                     Append(program, OpPush(FloatV(ParseTenths(token.word)))), scopes, rnd)
      [] token.kind \in {"Set", "Select", "SelectAll", "Filter", "Drop", "Plus", "Minus"} ->
           ParseFrom(tokens, i + 1, Append(program, MkOp(KeywordOp(token.kind))),
                     scopes, rnd)
      [] token.kind = "Range" ->
           \* i += 1; tokens[i] panics past the last token
           IF i + 1 >= Len(tokens) THEN ParseErr("panic")
           ELSE LET next_token == At(tokens, i + 1) IN
                IF next_token.kind # "Int" THEN ParseErr("err")
                ELSE ParseFrom(tokens, i + 2,
                               Append(program, OpRange(ParseI64(next_token.word).n, 0)),
                               Append(scopes, Len(program)), rnd)
      [] token.kind = "It" ->
           IF InScope(scopes)
           THEN ParseFrom(tokens, i + 1, Append(program, MkOp("It")), scopes, rnd)
           ELSE ParseErr("err")
      [] token.kind = "Do" -> ParseFrom(tokens, i + 1, program, scopes, rnd)
      [] token.kind = "End" ->
           IF scopes # <<>>
           THEN LET pos == scopes[Len(scopes)]
                    end == RangeEnd(program)
                    patched == [program EXCEPT ![pos + 1].end = end]
                IN  ParseFrom(tokens, i + 1, Append(patched, OpJump(pos)),
                              SubSeq(scopes, 1, Len(scopes) - 1), rnd)
           ELSE ParseErr("err")
      [] token.kind = "Word" -> ParseErr("err")

\* parse, from the tokens of its contents
Parse(tokens, rnd) == ParseFrom(tokens, 0, <<MkOp("Start")>>, <<>>, rnd)

\* parse
parse(contents, rnd) == Parse(tokenize(contents), rnd)

(***************************************************************************)
(* Storage: Database.tables maps a table name to Records, Records maps a   *)
(* row to a Record, a Record's fields map a key to a Value.                *)
(***************************************************************************)
EmptyMap == [x \in {} |-> 0]

\* HashMap::insert: the entry is added, or replaces the one under the same key
Put(f, k, v) == [x \in DOMAIN f \cup {k} |-> IF x = k THEN v ELSE f[x]]

\* set, were an existing record replaced by a fresh one instead of written in place
setReplacing(records, record_id, key, value) ==
    Put(records, record_id.row, Put(Put(EmptyMap, IdKey, record_id), ToLower(key), value))

\* set, were the key stored as it is written
setKeepingCase(records, record_id, key, value) ==
    IF record_id.row \in DOMAIN records
    THEN [records EXCEPT ![record_id.row] = Put(@, key, value)]
    ELSE Put(records, record_id.row, Put(Put(EmptyMap, IdKey, record_id), key, value))

\* intrinsics::set; HashMap::from of the two entries lets the later win a shared key
set(records, record_id, key, value) ==
    LET k == ToLower(key) IN
    IF record_id.row \in DOMAIN records
    THEN [records EXCEPT ![record_id.row] = Put(@, k, value)]
    ELSE Put(records, record_id.row, Put(Put(EmptyMap, IdKey, record_id), k, value))

\* intrinsics::match_predicate: the name of the predicate, or "none"
match_predicate(predicate) ==
    IF predicate.tag # "String" THEN "none"
    ELSE CASE predicate.s = <<61, 61>> -> "eq"
           [] predicate.s = <<60>> -> "lt"
           [] predicate.s = <<60, 61>> -> "le"
           [] predicate.s = <<62>> -> "gt"
           [] predicate.s = <<62, 61>> -> "ge"
           [] OTHER -> "none"

\* the closure match_predicate returns, applied to a and b
ApplyPredicate(p, a, b) ==
    CASE p = "eq" -> a = b
      [] p = "lt" -> ValueLess(a, b)
      [] p = "le" -> ValueLess(a, b) \/ a = b
      [] p = "gt" -> ValueLess(b, a)
      [] p = "ge" -> ValueLess(b, a) \/ a = b

RECURSIVE filter(_, _, _, _, _, _)
\* intrinsics::filter, ord being the order in which the HashMap yields the rows
filter(records, result, key, value, predicate, ord) ==
    IF ord = <<>> THEN result
    ELSE LET fields  == records[Head(ord)]
             include == key \in DOMAIN fields /\ ApplyPredicate(predicate, fields[key], value)
             pushed  == IF include /\ fields[IdKey].tag = "Id"
                        THEN Append(result, fields[IdKey]) ELSE result
         IN  filter(records, pushed, key, value, predicate, Tail(ord))

\* the orders in which a HashMap with the keys S may be iterated
Perms(S) ==
    {p \in [1..Cardinality(S) -> S] : \A x \in S : \E k \in 1..Cardinality(S) : p[k] = x}

(***************************************************************************)
(* The VM of execute_program.  A VM state holds the locals of the call:    *)
(* program (rewritten in place by Range), stack, result, i, it; status is  *)
(* "running", "ok" (Ok(result) is returned) or "error" (an Err is), err    *)
(* naming the error.  Every Exec operator yields [vm, db].                 *)
(***************************************************************************)
VmInit(program) ==
    [program |-> program, stack |-> <<>>, result |-> <<>>, i |-> 0, it |-> 0,
     status |-> "running", err |-> "none"]

\* `return Err(..)`: the locals are dropped, the database is as it is
Fail(st, d, why) == [vm |-> [st EXCEPT !.status = "error", !.err = why], db |-> d]

\* i += 1
Advance(st, d) == [vm |-> [st EXCEPT !.i = @ + 1], db |-> d]

\* the stack without its n topmost values
Popped(stack, n) == SubSeq(stack, 1, Len(stack) - n)

\* the k-th value from the top of the stack (1 is the top)
Top(stack, k) == stack[Len(stack) + 1 - k]

\* assert_stack_len
assert_stack_len(stack, n) == ~(Len(stack) < n)

\* get_table
get_table(table_name, d) == table_name \in DOMAIN d

ExecPush(st, d) ==
    Advance([st EXCEPT !.stack = Append(@, At(st.program, st.i).arg)], d)

\* ExecSet, were the key validated only after the write
ExecSetWriteFirst(st, d) ==
    IF ~assert_stack_len(st.stack, 3) THEN Fail(st, d, "stack")
    ELSE LET value     == Top(st.stack, 1)
             key       == Top(st.stack, 2)
             record_id == Top(st.stack, 3)
         IN  IF record_id.tag # "Id" THEN Fail(st, d, "record_id")
             ELSE LET records == IF get_table(record_id.table, d)
                                 THEN d[record_id.table] ELSE EmptyMap
                      written == Put(d, record_id.table,
                                     set(records, record_id, key.s, value))
                  IN  IF key.tag # "String" THEN Fail(st, written, "key")
                      ELSE Advance([st EXCEPT !.stack = Append(Popped(@, 3), record_id)],
                                   written)

ExecSet(st, d) ==
    IF ~assert_stack_len(st.stack, 3) THEN Fail(st, d, "stack")
    ELSE LET value     == Top(st.stack, 1)
             key       == Top(st.stack, 2)
             record_id == Top(st.stack, 3)
         IN  IF key.tag # "String" THEN Fail(st, d, "key")
             ELSE IF record_id.tag # "Id" THEN Fail(st, d, "record_id")
             ELSE LET records == IF get_table(record_id.table, d)
                                 THEN d[record_id.table] ELSE EmptyMap
                      written == set(records, record_id, key.s, value)
                  IN  Advance([st EXCEPT !.stack = Append(Popped(@, 3), record_id)],
                              Put(d, record_id.table, written))

\* ExecSelect, were a missing row passed over instead of reported
ExecSelectLenient(st, d) ==
    IF ~assert_stack_len(st.stack, 1) THEN Fail(st, d, "stack")
    ELSE LET record_id == Top(st.stack, 1)
             popped    == [st EXCEPT !.stack = Popped(@, 1)]
         IN  IF record_id.tag # "Id" THEN Fail(st, d, "record_id")
             ELSE IF ~get_table(record_id.table, d) THEN Fail(st, d, "table")
             ELSE IF record_id.row \in DOMAIN d[record_id.table]
             THEN Advance([popped EXCEPT !.result = Append(@, record_id)], d)
             ELSE Advance(popped, d)

ExecSelect(st, d) ==
    IF ~assert_stack_len(st.stack, 1) THEN Fail(st, d, "stack")
    ELSE LET record_id == Top(st.stack, 1)
             popped    == [st EXCEPT !.stack = Popped(@, 1)]
         IN  IF record_id.tag # "Id" THEN Fail(st, d, "record_id")
             ELSE IF ~get_table(record_id.table, d) THEN Fail(st, d, "table")
             ELSE IF record_id.row \in DOMAIN d[record_id.table]
             THEN Advance([popped EXCEPT !.result = Append(@, record_id)], d)
             ELSE Fail(st, d, "record")

\* ExecSelectAll, were the popped row itself left out
ExecSelectAllOthers(st, d, ord) ==
    IF ~assert_stack_len(st.stack, 1) THEN Fail(st, d, "stack")
    ELSE LET record_id == Top(st.stack, 1)
             popped    == [st EXCEPT !.stack = Popped(@, 1)]
             others    == SelectSeq(ord, LAMBDA row : row # record_id.row)
         IN  IF record_id.tag # "Id" THEN Fail(st, d, "record_id")
             ELSE IF ~get_table(record_id.table, d) THEN Fail(st, d, "table")
             ELSE Advance([popped EXCEPT !.result =
                              @ \o [k \in 1..Len(others) |-> IdV(record_id.table, others[k])]], d)

\* ord: the order in which the table's HashMap yields its rows
ExecSelectAll(st, d, ord) ==
    IF ~assert_stack_len(st.stack, 1) THEN Fail(st, d, "stack")
    ELSE LET record_id == Top(st.stack, 1)
             popped    == [st EXCEPT !.stack = Popped(@, 1)]
         IN  IF record_id.tag # "Id" THEN Fail(st, d, "record_id")
             ELSE IF ~get_table(record_id.table, d) THEN Fail(st, d, "table")
             ELSE Advance([popped EXCEPT !.result =
                              @ \o [k \in 1..Len(ord) |-> IdV(record_id.table, ord[k])]], d)

ExecFilter(st, d, ord) ==
    IF ~assert_stack_len(st.stack, 4) THEN Fail(st, d, "stack")
    ELSE LET predicate == match_predicate(Top(st.stack, 1))
             value     == Top(st.stack, 2)
             key       == Top(st.stack, 3)
             record_id == Top(st.stack, 4)
             popped    == [st EXCEPT !.stack = Popped(@, 4)]
         IN  IF predicate = "none" THEN Fail(st, d, "predicate")
             ELSE IF key.tag # "String" THEN Fail(st, d, "key")
             ELSE IF record_id.tag # "Id" THEN Fail(st, d, "record_id")
             ELSE IF ~get_table(record_id.table, d) THEN Fail(st, d, "table")
             ELSE Advance([popped EXCEPT !.result =
                              filter(d[record_id.table], @, ToLower(key.s), value,
                                     predicate, ord)], d)

\* ExecDrop, were the record a dropped identity names deleted with it
ExecDropDeleting(st, d) ==
    IF ~assert_stack_len(st.stack, 1) THEN Fail(st, d, "stack")
    ELSE LET v == Top(st.stack, 1)
             kept == IF v.tag = "Id" /\ v.table \in DOMAIN d
                     THEN [d EXCEPT ![v.table] =
                              [r \in DOMAIN @ \ {v.row} |-> @[r]]]
                     ELSE d
         IN  Advance([st EXCEPT !.stack = Popped(@, 1)], kept)

ExecDrop(st, d) ==
    IF ~assert_stack_len(st.stack, 1) THEN Fail(st, d, "stack")
    ELSE Advance([st EXCEPT !.stack = Popped(@, 1)], d)

\* Add (sign = 1) and Subtract (sign = -1); the operands of the model are small
ExecArith(st, d, sign) ==
    IF ~assert_stack_len(st.stack, 2) THEN Fail(st, d, "stack")
    ELSE LET b == Top(st.stack, 1)
             a == Top(st.stack, 2)
         IN  IF b.tag # "Int" \/ a.tag # "Int" THEN Fail(st, d, "int")
             ELSE Advance([st EXCEPT !.stack = Append(Popped(@, 2), IntV(a.n + sign * b.n))], d)

ExecIt(st, d) == Advance([st EXCEPT !.stack = Append(@, IntV(st.it))], d)

\* ExecRange, were the register cleared when a block is left
ExecRangeLeaving(st, d) ==
    LET op == At(st.program, st.i) IN
    IF op.value > 0
    THEN Advance([st EXCEPT !.it = op.value,
                            !.program[st.i + 1].value = op.value - 1], d)
    ELSE [vm |-> [st EXCEPT !.i = op.end, !.it = 0], db |-> d]

\* ExecRange, were the iterator 0-based
ExecRangeZeroBased(st, d) ==
    LET op == At(st.program, st.i) IN
    IF op.value > 0
    THEN Advance([st EXCEPT !.it = op.value - 1,
                            !.program[st.i + 1].value = op.value - 1], d)
    ELSE [vm |-> [st EXCEPT !.i = op.end], db |-> d]

ExecRange(st, d) ==
    LET op == At(st.program, st.i) IN
    IF op.value > 0
    THEN Advance([st EXCEPT !.it = op.value,
                            !.program[st.i + 1].value = op.value - 1], d)
    ELSE [vm |-> [st EXCEPT !.i = op.end], db |-> d]

ExecJump(st, d) == [vm |-> [st EXCEPT !.i = At(st.program, st.i).pos], db |-> d]

\* the instruction at i, executed
ExecOp(st, d, ord) ==
    LET op == At(st.program, st.i).op IN
    CASE op \in {"Start", "End"} -> Advance(st, d)
      [] op = "Push" -> ExecPush(st, d)
      [] op = "Set" -> ExecSet(st, d)
      [] op = "Select" -> ExecSelect(st, d)
      [] op = "SelectAll" -> ExecSelectAll(st, d, ord)
      [] op = "Filter" -> ExecFilter(st, d, ord)
      [] op = "Drop" -> ExecDrop(st, d)
      [] op = "Add" -> ExecArith(st, d, 1)
      [] op = "Subtract" -> ExecArith(st, d, -1)
      [] op = "It" -> ExecIt(st, d)
      [] op = "Range" -> ExecRange(st, d)
      [] op = "Jump" -> ExecJump(st, d)

\* one turn of `while i < program.len()`: the instruction, then the loop test,
\* which ends the call with Ok(result) once i is past the program
VmStep(st, d, ord) ==
    LET r == ExecOp(st, d, ord) IN
    IF r.vm.status = "running" /\ ~(r.vm.i < Len(r.vm.program))
    THEN [r EXCEPT !.vm.status = "ok"]
    ELSE r

\* the table the instruction at i iterates, when it is a SelectAll or a Filter
\* that gets as far as iterating; "none" otherwise
Iterated(st, d) ==
    LET op == At(st.program, st.i).op
        k  == IF op = "SelectAll" THEN 1 ELSE 4
    IN  IF op \in {"SelectAll", "Filter"} /\ Len(st.stack) >= k
           /\ Top(st.stack, k).tag = "Id" /\ Top(st.stack, k).table \in DOMAIN d
        THEN {Top(st.stack, k).table} ELSE {}

\* the iteration orders the instruction at i may meet
Orders(st, d) ==
    IF Iterated(st, d) = {} THEN {<<>>}
    ELSE UNION {Perms(DOMAIN d[t]) : t \in Iterated(st, d)}

RECURSIVE RunSteps(_, _, _)
\* the call after n further instructions (fewer when it returns sooner); the
\* database it leaves does not depend on the iteration orders
RunSteps(st, d, n) ==
    IF n = 0 \/ st.status # "running" THEN [vm |-> st, db |-> d]
    ELSE LET r == VmStep(st, d, CHOOSE ord \in Orders(st, d) : TRUE)
         IN  RunSteps(r.vm, r.db, n - 1)

(***************************************************************************)
(* Requests: the token streams tokenize yields for the query texts named   *)
(* in the comments.                                                        *)
(***************************************************************************)
TId(word) == Tok("Id", word)
TStr(text) == Tok("String", <<34>> \o text \o <<34>>)
\* the decimal text of a one-digit integer
Decimal(n) == IF n < 0 THEN <<45, 48 - n>> ELSE <<48 + n>>
TInt(n) == Tok("Int", Decimal(n))
KwSet == Tok("Set", <<115, 101, 116>>)
KwSelect == Tok("Select", <<115, 101, 108, 101, 99, 116>>)
KwSelectAll == Tok("SelectAll", <<115, 101, 108, 101, 99, 116, 95, 97, 108, 108>>)
KwFilter == Tok("Filter", <<102, 105, 108, 116, 101, 114>>)
KwDrop == Tok("Drop", <<100, 114, 111, 112>>)
KwPlus == Tok("Plus", <<43>>)
KwMinus == Tok("Minus", <<45>>)
KwRange == Tok("Range", <<114, 97, 110, 103, 101>>)
KwIt == Tok("It", <<105, 116>>)
KwDo == Tok("Do", <<100, 111>>)
KwEnd == Tok("End", <<101, 110, 100>>)

T1 == <<64, 116, 58, 49>>       \* @t:1
T2 == <<64, 116, 58, 50>>       \* @t:2
TAny == <<64, 116, 58, 95>>     \* @t:_
T9 == <<64, 116, 58, 57>>       \* @t:9
U9 == <<64, 117, 58, 57>>       \* @u:9
Kk == <<107>>                   \* k
KK == <<75>>                    \* K
Kj == <<106>>                   \* j
Kid == <<105, 100>>             \* id
KID == <<73, 68>>               \* ID
PEq == <<61, 61>>               \* ==
PGe == <<62, 61>>               \* >=
PLt == <<60>>                   \* <
PGt == <<62>>                   \* >
VBo == <<66, 111>>              \* Bo
Vbo == <<98, 111>>              \* bo

\* @t:1 "k" 5 set
ReqSetK == <<TId(T1), TStr(Kk), TInt(5), KwSet>>
\* @t:1 "K" 6 set
ReqSetUpperK == <<TId(T1), TStr(KK), TInt(6), KwSet>>
\* @t:2 "j" 6 set
ReqSetJ == <<TId(T2), TStr(Kj), TInt(6), KwSet>>
\* @t:1 "ID" 7 set
ReqSetId == <<TId(T1), TStr(KID), TInt(7), KwSet>>
\* @t:1 "id" @u:9 set drop @t:1 "id" @u:9 "==" filter
ReqForeignId ==
    <<TId(T1), TStr(Kid), TId(U9), KwSet, KwDrop,
      TId(T1), TStr(Kid), TId(U9), TStr(PEq), KwFilter>>
\* @t:1 select
ReqSelect == <<TId(T1), KwSelect>>
\* @t:_ select_all
ReqSelectAll == <<TId(TAny), KwSelectAll>>
\* @t:1 "k" 5 ">=" filter
ReqFilter == <<TId(T1), TStr(Kk), TInt(5), TStr(PGe), KwFilter>>
\* @t:2 "j" 1 set select drop
ReqSetThenFail == <<TId(T2), TStr(Kj), TInt(1), KwSet, KwSelect, KwDrop>>
\* drop
ReqDrop == <<KwDrop>>
\* "k" 5 set
ReqSetShort == <<TStr(Kk), TInt(5), KwSet>>
\* @t:1 5 5 set
ReqSetIntKey == <<TId(T1), TInt(5), TInt(5), KwSet>>
\* 5 "k" 5 set
ReqSetIntId == <<TInt(5), TStr(Kk), TInt(5), KwSet>>
\* @t:1 "k" 5 set "j" 6 set select
ReqSetTwoKeys == <<TId(T1), TStr(Kk), TInt(5), KwSet, TStr(Kj), TInt(6), KwSet, KwSelect>>
\* @t:2 "k" 5 set "K" 6 set
ReqSetSameKey == <<TId(T2), TStr(Kk), TInt(5), KwSet, TStr(KK), TInt(6), KwSet>>
\* 2 3 + 1 -
ReqArith == <<TInt(2), TInt(3), KwPlus, TInt(1), KwMinus>>
\* 7 range N do it end 8
ReqRange(N) == <<TInt(7), KwRange, TInt(N), KwDo, KwIt, KwEnd, TInt(8)>>
\* range M do range N do it end end
ReqNested(M, N) == <<KwRange, TInt(M), KwDo, KwRange, TInt(N), KwDo, KwIt, KwEnd, KwEnd>>
\* range M do range N do end it end
ReqShadow(M, N) == <<KwRange, TInt(M), KwDo, KwRange, TInt(N), KwDo, KwEnd, KwIt, KwEnd>>
\* range N do it        (the block is not closed)
ReqOpenRange(N) == <<KwRange, TInt(N), KwDo, KwIt>>
\* end
ReqEnd == <<KwEnd>>
\* it
ReqIt == <<KwIt>>
\* range
ReqRangeLast == <<KwRange>>
\* foo
ReqWord == <<Tok("Word", <<102, 111, 111>>)>>

RangeRequests == {ReqRange(N) : N \in -1..MaxRange}
NestedRequests == {ReqNested(M, N) : M \in 1..2, N \in 1..2}
OpenRequests == {ReqOpenRange(N) : N \in 0..1}
ShadowRequests == {ReqShadow(M, N) : M \in 2..MaxRange, N \in 1..2}

\* the requests of the single-worker specification
AllRequests ==
    {ReqSetK, ReqSetUpperK, ReqSetJ, ReqSetId, ReqForeignId, ReqSelect, ReqSelectAll,
     ReqFilter, ReqSetThenFail, ReqDrop, ReqSetShort, ReqSetIntKey, ReqSetIntId,
     ReqSetTwoKeys, ReqSetSameKey, ReqArith, ReqEnd, ReqIt, ReqRangeLast, ReqWord}
    \cup RangeRequests \cup NestedRequests \cup OpenRequests \cup ShadowRequests

\* @t:1 "k" 5 set "j" 5 set select
ReqWriteFive == <<TId(T1), TStr(Kk), TInt(5), KwSet, TStr(Kj), TInt(5), KwSet, KwSelect>>
\* @t:1 "k" 6 set "j" 6 set
ReqWriteSix == <<TId(T1), TStr(Kk), TInt(6), KwSet, TStr(Kj), TInt(6), KwSet>>

\* the requests of the specifications of the pool
ConcRequests == {ReqWriteFive, ReqWriteSix, ReqSelect, ReqSetThenFail, ReqForeignId}

\* the requests of the fair specification
LiveRequests == RangeRequests \cup NestedRequests \cup OpenRequests \cup {ReqSetThenFail}

\* @t:2 "k" 7 set drop @u:9 "k" 5 set
ReqSetRows ==
    <<TId(T2), TStr(Kk), TInt(7), KwSet, KwDrop, TId(U9), TStr(Kk), TInt(5), KwSet>>
\* @t:2 "K" "Bo" set
ReqTextSet == <<TId(T2), TStr(KK), TStr(VBo), KwSet>>
\* @t:9 select
ReqSelectMissing == <<TId(T9), KwSelect>>
\* @t:1 "K" 6 "<" filter
ReqFilterUpperLess == <<TId(T1), TStr(KK), TInt(6), TStr(PLt), KwFilter>>
\* @t:2 "k" "Bo" set drop @t:2 "k" 5 ">" filter
ReqFilterGreater ==
    <<TId(T2), TStr(Kk), TStr(VBo), KwSet, KwDrop,
      TId(T2), TStr(Kk), TInt(5), TStr(PGt), KwFilter>>
\* @t:1 "id" 5 "<" filter
ReqFilterId == <<TId(T1), TStr(Kid), TInt(5), TStr(PLt), KwFilter>>
\* @t:2 "K" "Bo" "==" filter
ReqTextFilterSame == <<TId(T2), TStr(KK), TStr(VBo), TStr(PEq), KwFilter>>
\* @t:2 "k" "bo" "==" filter
ReqTextFilterFolded == <<TId(T2), TStr(Kk), TStr(Vbo), TStr(PEq), KwFilter>>

\* the requests of the query specification
QueryRequests ==
    {ReqSetK, ReqSetRows, ReqTextSet, ReqSetId, ReqSelect, ReqSelectMissing,
     ReqSelectAll, ReqFilter, ReqFilterUpperLess, ReqFilterGreater, ReqFilterId,
     ReqTextFilterSame, ReqTextFilterFolded}

\* the words of the generated requests of the compiler specification:
\* range, 1, it, end
ScopeWords == {KwRange, TInt(1), KwIt, KwEnd}

\* and foo
ParseWords == ScopeWords \cup {Tok("Word", <<102, 111, 111>>)}

\* the requests of the compiler specification: every stream of at most
\* MaxTokens of the words that open, use and close range blocks, and every
\* stream two tokens shorter that may hold the unrecognized word too
ParseRequests ==
    UNION {[1..n -> ScopeWords] : n \in 0..MaxTokens}
    \cup UNION {[1..n -> ParseWords] : n \in 0..(MaxTokens - 2)}

\* the characters of the generated texts of the lexer specification:
\* line feed, space, '"', '#' and '1'
LexChars == {10, 32, 34, 35, 49}

\* the texts of the lexer specification: every one of at most MaxText of
\* these characters
LexRequests == UNION {[1..n -> LexChars] : n \in 0..MaxText}

RECURSIVE Unlex(_)
\* the words of the tokens, a space between each two
Unlex(tokens) ==
    IF tokens = <<>> THEN <<>>
    ELSE IF Len(tokens) = 1 THEN tokens[1].word
    ELSE tokens[1].word \o <<32>> \o Unlex(Tail(tokens))

\* the body parse_tcp reads for a query: its line and the line feed ending it
Written(tokens) == Unlex(tokens) \o <<10>>

\* the bodies of a set of requests
Bodies(requests) == {Written(tokens) : tokens \in requests}

\* the rows the random source may yield for a `_`
RandRows == {1, 7}

RECURSIVE NumRandom(_)
\* the number of `@table:_` tokens
NumRandom(tokens) ==
    IF tokens = <<>> THEN 0
    ELSE NumRandom(Tail(tokens))
         + (IF Head(tokens).kind = "Id" /\ Head(tokens).word[Len(Head(tokens).word)] = 95
            THEN 1 ELSE 0)

\* what the random source may yield while the tokens are parsed
Draws(tokens) == [1..NumRandom(tokens) -> RandRows]

(***************************************************************************)
(* The server: handle_query, run by the workers of the pool.               *)
(* pc: "idle" | "wait" (blocked in execute_program's lock()) | "exec" (the *)
(* VM runs) | "computed" (execute_program returned Ok, results_to_json not *)
(* yet locked) | "render" (results_to_json holds the lock) | "done".       *)
(* lock: the worker holding the Mutex, 0 when free.                        *)
(* History: dbAtStart and dbAtReturn are the database as a worker's last   *)
(* execute_program found and left it, steps the instructions it executed,  *)
(* setLog the last two writes of intrinsics::set, served the requests      *)
(* taken so far.                                                           *)
(***************************************************************************)
Workers == {1, 2, 3, 4}

\* run(): Database { tables: {DEFAULT_TABLE: {}} }
InitDb == Put(EmptyMap, DEFAULT_TABLE, EmptyMap)

NoReq == [contents |-> <<>>, tokens |-> <<>>, rnd |-> <<>>]
NoResp == [message |-> "none", data |-> <<>>]

\* ErrResponse, were the identities collected before the error reported with it
ErrResponsePartial(st) == [message |-> st.err, data |-> st.result]

\* report_err: the message alone
ErrResponse(st) == [message |-> st.err, data |-> <<>>]

\* results_to_json reads every record the result names
Renderable(result, d) ==
    \A k \in 1..Len(result) :
        result[k].table \in DOMAIN d /\ result[k].row \in DOMAIN d[result[k].table]

\* results_to_json: the fields of the records the result names, in order
results_to_json(result, d) ==
    [message |-> "OK",
     data |-> [k \in 1..Len(result) |-> d[result[k].table][result[k].row]]]

\* CanLock, were the database shared without mutual exclusion
CanLockUnguarded(w) == TRUE

\* Mutex::lock returns once no thread holds the lock
CanLock(w) == lock = 0

\* LockAfterReturn, were the guard kept for the rendering of the result
LockKeptForRender(w) == w

\* LockAfterReturn, were the guard leaked when execute_program returns an Err
LockLeakedOnError(w) == IF vm[w].status = "error" THEN w ELSE 0

\* the lock once execute_program has returned: its guard is dropped
LockAfterReturn(w) == 0

\* the write a successful Set instruction made, for setLog
SetEvent(st, d, r) ==
    LET record_id == Top(st.stack, 3)
        before    == IF record_id.table \in DOMAIN d THEN d[record_id.table] ELSE EmptyMap
    IN  [rid |-> record_id, key |-> Top(st.stack, 2).s, value |-> Top(st.stack, 1),
         rowsBefore |-> Cardinality(DOMAIN before),
         rowsAfter |-> Cardinality(DOMAIN r.db[record_id.table]),
         fieldsBefore |-> IF record_id.row \in DOMAIN before
                          THEN Cardinality(DOMAIN before[record_id.row]) ELSE 0]

\* setLog after an instruction: the last two writes
Logged(st, d, r) ==
    IF At(st.program, st.i).op = "Set" /\ r.vm.status # "error"
    THEN IF Len(setLog) < 2 THEN Append(setLog, SetEvent(st, d, r))
         ELSE <<setLog[2], SetEvent(st, d, r)>>
    ELSE setLog

Init ==
    /\ db = InitDb
    /\ poisoned = FALSE
    /\ lock = 0
    /\ pc = [w \in Workers |-> "idle"]
    /\ req = [w \in Workers |-> NoReq]
    /\ vm = [w \in Workers |-> VmInit(<<>>)]
    /\ resp = [w \in Workers |-> NoResp]
    /\ dbAtStart = [w \in Workers |-> InitDb]
    /\ dbAtReturn = [w \in Workers |-> InitDb]
    /\ steps = [w \in Workers |-> 0]
    /\ served = 0
    /\ setLog = <<>>

\* handle_query up to the call of execute_program: the body is read and parsed.
\* requests are the bodies that may arrive, limit the requests served in all.
Receive(w, requests, limit) ==
    /\ pc[w] \in {"idle", "done"}
    /\ served < limit
    /\ \E contents \in requests :
         LET tokens == tokenize(contents) IN
         \E rnd \in Draws(tokens) :
         LET p == Parse(tokens, rnd) IN
         /\ req' = [req EXCEPT ![w] = [contents |-> contents, tokens |-> tokens,
                                       rnd |-> rnd]]
         /\ vm' = [vm EXCEPT ![w] = VmInit(p.program)]
         /\ pc' = [pc EXCEPT ![w] = IF p.status = "ok" THEN "wait" ELSE "done"]
         /\ resp' = [resp EXCEPT ![w] =
                       IF p.status = "ok" THEN NoResp
                       ELSE [message |-> IF p.status = "err" THEN "parse" ELSE "panic",
                             data |-> <<>>]]
    /\ served' = served + 1
    /\ steps' = [steps EXCEPT ![w] = 0]
    /\ UNCHANGED <<db, poisoned, lock, dbAtStart, dbAtReturn, setLog>>

\* execute_program: database.lock().unwrap(), which panics on a poisoned Mutex
Acquire(w) ==
    /\ pc[w] = "wait"
    /\ CanLock(w)
    /\ IF poisoned
       THEN /\ pc' = [pc EXCEPT ![w] = "done"]
            /\ resp' = [resp EXCEPT ![w] = [message |-> "panic", data |-> <<>>]]
            /\ UNCHANGED <<lock, dbAtStart>>
       ELSE /\ pc' = [pc EXCEPT ![w] = "exec"]
            /\ lock' = w
            /\ dbAtStart' = [dbAtStart EXCEPT ![w] = db]
            /\ UNCHANGED resp
    /\ UNCHANGED <<db, poisoned, req, vm, dbAtReturn, steps, served, setLog>>

\* one instruction of the VM; counted says whether steps counts (and bounds) it
Step(w, counted) ==
    /\ pc[w] = "exec"
    /\ vm[w].status = "running"
    /\ counted => steps[w] < MaxSteps
    /\ \E ord \in Orders(vm[w], db) :
         LET r == VmStep(vm[w], db, ord) IN
         /\ vm' = [vm EXCEPT ![w] = r.vm]
         /\ db' = r.db
         /\ setLog' = Logged(vm[w], db, r)
    /\ steps' = [steps EXCEPT ![w] = IF counted THEN @ + 1 ELSE @]
    /\ UNCHANGED <<poisoned, lock, pc, req, resp, dbAtStart, dbAtReturn, served>>

\* execute_program returns: the guard is dropped; handle_query reports an Err
Return(w) ==
    /\ pc[w] = "exec"
    /\ vm[w].status \in {"ok", "error"}
    /\ lock' = LockAfterReturn(w)
    /\ dbAtReturn' = [dbAtReturn EXCEPT ![w] = db]
    /\ IF vm[w].status = "ok"
       THEN /\ pc' = [pc EXCEPT ![w] = "computed"]
            /\ UNCHANGED resp
       ELSE /\ pc' = [pc EXCEPT ![w] = "done"]
            /\ resp' = [resp EXCEPT ![w] = ErrResponse(vm[w])]
    /\ UNCHANGED <<db, poisoned, req, vm, dbAtStart, steps, served, setLog>>

\* results_to_json: database.lock().unwrap()
RenderAcquire(w) ==
    /\ pc[w] = "computed"
    /\ CanLock(w)
    /\ IF poisoned
       THEN /\ pc' = [pc EXCEPT ![w] = "done"]
            /\ resp' = [resp EXCEPT ![w] = [message |-> "panic", data |-> <<>>]]
            /\ UNCHANGED lock
       ELSE /\ pc' = [pc EXCEPT ![w] = "render"]
            /\ lock' = w
            /\ UNCHANGED resp
    /\ UNCHANGED <<db, poisoned, req, vm, dbAtStart, dbAtReturn, steps, served, setLog>>

\* results_to_json: the records are read and the guard is dropped; an unwrap of a
\* missing table or record panics with the guard held, which poisons the Mutex
Render(w) ==
    /\ pc[w] = "render"
    /\ lock' = 0
    /\ pc' = [pc EXCEPT ![w] = "done"]
    /\ IF Renderable(vm[w].result, db)
       THEN /\ resp' = [resp EXCEPT ![w] = results_to_json(vm[w].result, db)]
            /\ UNCHANGED poisoned
       ELSE /\ resp' = [resp EXCEPT ![w] = [message |-> "panic", data |-> <<>>]]
            /\ poisoned' = TRUE
    /\ UNCHANGED <<db, req, vm, dbAtStart, dbAtReturn, steps, served, setLog>>

\* pool.execute: the connection goes to a thread of the pool that is free.
\* The threads are alike, so of the free ones the model names one: the first
\* that has served nothing yet and, when there is none, the first that is done.
Dispatched(w) ==
    LET fresh == {v \in Workers : pc[v] = "idle"}
        done  == {v \in Workers : pc[v] = "done"}
        free  == IF fresh # {} THEN fresh ELSE done
    IN  w \in free /\ \A v \in free : w <= v

\* the workers of the pool serving three of ConcRequests, so that up to three
\* calls of handle_query are in flight at once
Next ==
    \E w \in Workers :
        \/ Dispatched(w) /\ Receive(w, Bodies(ConcRequests), 3)
        \/ Acquire(w)
        \/ Step(w, TRUE)
        \/ Return(w)
        \/ RenderAcquire(w)
        \/ Render(w)

Spec == Init /\ [][Next]_vars

\* one worker serving AllRequests
NextVM ==
    \/ Receive(1, Bodies(AllRequests), MaxRequests)
    \/ Acquire(1)
    \/ Step(1, TRUE)
    \/ Return(1)
    \/ RenderAcquire(1)
    \/ Render(1)

SpecVM == Init /\ [][NextVM]_vars

\* one worker serving LiveRequests; its thread, once it has read a request, is
\* never starved
NextLive ==
    \/ Receive(1, Bodies(LiveRequests), MaxRequests)
    \/ Acquire(1)
    \/ Step(1, FALSE)
    \/ Return(1)
    \/ RenderAcquire(1)
    \/ Render(1)

\* what the worker's thread does once a request is read
Progress ==
    \/ Acquire(1)
    \/ Step(1, FALSE)
    \/ Return(1)
    \/ RenderAcquire(1)
    \/ Render(1)

SpecLive == Init /\ [][NextLive]_vars /\ WF_vars(Progress)

\* what worker w's thread does once it has read a request
Work(w) ==
    \/ Acquire(w)
    \/ Step(w, TRUE)
    \/ Return(w)
    \/ RenderAcquire(w)
    \/ Render(w)

\* the workers of the pool serving two of ConcRequests
NextPair ==
    \E w \in Workers :
        \/ Dispatched(w) /\ Receive(w, Bodies(ConcRequests), 2)
        \/ Acquire(w)
        \/ Step(w, TRUE)
        \/ Return(w)
        \/ RenderAcquire(w)
        \/ Render(w)

\* no thread that has read a request is starved
SpecPair == Init /\ [][NextPair]_vars /\ \A w \in Workers : WF_vars(Work(w))

\* one worker serving QueryRequests
NextQuery ==
    \/ Receive(1, Bodies(QueryRequests), MaxRequests)
    \/ Acquire(1)
    \/ Step(1, TRUE)
    \/ Return(1)
    \/ RenderAcquire(1)
    \/ Render(1)

SpecQuery == Init /\ [][NextQuery]_vars

\* one worker serving one of ParseRequests
NextParse ==
    \/ Receive(1, Bodies(ParseRequests), 1)
    \/ Acquire(1)
    \/ Step(1, TRUE)
    \/ Return(1)
    \/ RenderAcquire(1)
    \/ Render(1)

SpecParse == Init /\ [][NextParse]_vars

\* one worker on which parse is called with one of LexRequests, a text that
\* may hold several lines
NextLex ==
    \/ Receive(1, LexRequests, 1)
    \/ Acquire(1)
    \/ Step(1, TRUE)
    \/ Return(1)
    \/ RenderAcquire(1)
    \/ Render(1)

SpecLex == Init /\ [][NextLex]_vars

(***************************************************************************)
(* Properties                                                              *)
(***************************************************************************)
\* the program parse returned for worker w's request
Compiled(w) == Parse(req[w].tokens, req[w].rnd).program

\* the database a call of execute_program on worker w's request leaves, from d
Alone(w, d) == RunSteps(VmInit(Compiled(w)), d, MaxSteps).db

\* worker w's call of execute_program has returned
Returned(w) == pc[w] \in {"computed", "render", "done"} /\ vm[w].status \in {"ok", "error"}

\* C1: every record stored at (table, row) has its "id" field equal to
\* Identity(table, row), whatever Set operations ran.
C1_IdFieldIsOwnIdentity ==
    \A t \in DOMAIN db : \A r \in DOMAIN db[t] : db[t][r][IdKey] = IdV(t, r)

\* C2: when execute_program returns a result set, every identity in it names a
\* (table, row) that exists in the Database.
C2_ResultNamesExistingRows ==
    \A w \in Workers :
        pc[w] = "exec" /\ vm[w].status = "ok" =>
            \A k \in 1..Len(vm[w].result) :
                /\ vm[w].result[k].table \in DOMAIN db
                /\ vm[w].result[k].row \in DOMAIN db[vm[w].result[k].table]

RECURSIVE Serial(_, _)
\* the database the programs of the workers of ord leave when they run one
\* after the other, in that order, from d
Serial(ord, d) == IF ord = <<>> THEN d ELSE Serial(Tail(ord), Alone(Head(ord), d))

\* the workers that have been handed a request
Ran == {w \in Workers : pc[w] # "idle"}

\* C3: no two workers are ever both inside execute_program, so no instruction of
\* one program runs between two of the other; every call leaves the database
\* its program alone produces from the database it found; and once the
\* workers handed a request have each run one program from the initial
\* database, the database is the one a serial run of these programs in one of
\* their orders gives.
C3_ProgramsAreSerialized ==
    /\ \A w, v \in Workers : w # v => ~(pc[w] = "exec" /\ pc[v] = "exec")
    /\ \A w \in Workers : Returned(w) => dbAtReturn[w] = Alone(w, dbAtStart[w])
    /\ (Cardinality(Ran) = served /\ \A w \in Ran : Returned(w)) =>
           \E ord \in Perms(Ran) : db = Serial(ord, InitDb)

\* C3 witness: three workers ran a program each, and the database is the one
\* of the serial order 3, 2, 1 and not the one of the order 1, 2, 3.
C3_Witness ==
    /\ served = 3
    /\ Ran = {1, 2, 3}
    /\ \A w \in Ran : Returned(w)
    /\ db = Serial(<<3, 2, 1>>, InitDb)
    /\ db # Serial(<<1, 2, 3>>, InitDb)

\* C4 as stated: a worker holds the lock from the start of its program's
\* execution until it has rendered the result, so the database it renders is
\* the one its program left.
C4_LockHeldUntilRendered ==
    \A w \in Workers :
        pc[w] \in {"exec", "computed", "render"} =>
            lock = w /\ (pc[w] # "exec" => db = dbAtReturn[w])

\* C4 amended: a worker holds the lock throughout execute_program and again
\* throughout results_to_json, and does not hold it between the two calls.
C4_LockHeldPerCall ==
    \A w \in Workers :
        /\ pc[w] \in {"exec", "render"} => lock = w
        /\ pc[w] = "computed" => lock # w

\* C4 witness: a worker renders its result after another worker's program has
\* changed the database its own program left.
C4_Witness ==
    \E w \in Workers : pc[w] = "render" /\ lock = w /\ db # dbAtReturn[w]

\* the stack `7 range N do it end 8` leaves: 7, then N, N-1, .., 1, then 8
CountDown(N) ==
    <<IntV(7)>> \o [k \in 1..(IF N > 0 THEN N ELSE 0) |-> IntV(N + 1 - k)] \o <<IntV(8)>>

\* C5: a top-level `range N do it end` runs its body exactly N times, `it`
\* pushing N, N-1, .., 1 in that order, and zero times for N <= 0: while the
\* program runs its stack is a prefix of 7, N, .., 1, 8 and at its end it is
\* all of it.
C5_RangeCountsDown ==
    \A w \in Workers : \A N \in -1..MaxRange :
        req[w].tokens = ReqRange(N) /\ pc[w] # "wait" =>
            /\ Len(vm[w].stack) <= Len(CountDown(N))
            /\ vm[w].stack = SubSeq(CountDown(N), 1, Len(vm[w].stack))
            /\ vm[w].status # "error"
            /\ vm[w].status = "ok" => vm[w].stack = CountDown(N)

\* C5 witness: `7 range 3 do it end 8` has ended with 7, 3, 2, 1, 8 on the stack.
C5_Witness ==
    \E w \in Workers :
        /\ req[w].tokens = ReqRange(3)
        /\ vm[w].status = "ok"
        /\ vm[w].stack = <<IntV(7), IntV(3), IntV(2), IntV(1), IntV(8)>>

\* C6: in `range M do range N do it end end` the body runs M*N times.
C6_NestedRangeMultiplies ==
    \A w \in Workers : \A M \in 1..2 : \A N \in 1..2 :
        req[w].tokens = ReqNested(M, N) /\ vm[w].status = "ok" =>
            Len(vm[w].stack) = M * N

\* C7: every program parse returns halts: a worker inside execute_program
\* eventually leaves it.
C7_EveryProgramHalts ==
    \A w \in Workers : [](pc[w] = "exec" => <>(pc[w] # "exec"))

\* C8: after two Sets in a row on the same identity, keys being compared as the
\* field names they are stored under: with different keys the record holds both
\* fields and "id"; with the same key the record holds the second value under
\* it and has as many fields as before the second Set; either way the second
\* Set leaves the number of records of the table unchanged.
C8_UpsertMerges ==
    (Len(setLog) = 2 /\ setLog[1].rid = setLog[2].rid) =>
        LET first  == setLog[1]
            second == setLog[2]
            record == db[second.rid.table][second.rid.row]
            k1     == ToLower(first.key)
            k2     == ToLower(second.key)
        IN  /\ second.rowsAfter = second.rowsBefore
            /\ {IdKey, k1, k2} \subseteq DOMAIN record
            /\ record[k2] = second.value
            /\ k1 # k2 => record[k1] = first.value
            /\ k1 = k2 => Cardinality(DOMAIN record) = second.fieldsBefore

\* C8 witness: two Sets in a row wrote different keys of one record, which
\* holds both values and its "id".
C8_Witness ==
    /\ Len(setLog) = 2
    /\ setLog[1].rid = setLog[2].rid
    /\ ToLower(setLog[1].key) # ToLower(setLog[2].key)
    /\ IdKey \notin {ToLower(setLog[1].key), ToLower(setLog[2].key)}
    /\ Cardinality(DOMAIN db[setLog[2].rid.table][setLog[2].rid.row]) = 3

\* the instruction worker w is about to execute violates its precondition:
\* Drop on an empty stack, or Set with fewer than 3 values, a key that is not
\* Text or a record_id that is not an Identity
Violates(w) ==
    LET st == vm[w]
        op == At(st.program, st.i).op
    IN  \/ op = "Drop" /\ st.stack = <<>>
        \/ op = "Set" /\ Len(st.stack) < 3
        \/ op = "Set" /\ Len(st.stack) >= 3 /\ Top(st.stack, 2).tag # "String"
        \/ op = "Set" /\ Len(st.stack) >= 3 /\ Top(st.stack, 3).tag # "Id"

\* C9: an instruction whose precondition is violated ends the program with an
\* error and leaves the Database exactly as it was.
C9_FailedInstructionWritesNothing ==
    [][\A w \in Workers :
          (pc[w] = "exec" /\ vm[w].status = "running" /\ vm'[w] # vm[w] /\ Violates(w))
              => (vm'[w].status = "error" /\ db' = db)]_vars

\* C9 witness: a Set whose key is not Text has failed on a database that holds
\* records.
C9_Witness ==
    \E w \in Workers :
        /\ pc[w] = "exec"
        /\ vm[w].status = "error"
        /\ vm[w].err = "key"
        /\ At(vm[w].program, vm[w].i).op = "Set"
        /\ db # InitDb

\* C10: when a program fails at its k-th instruction the Database is the one
\* its first k-1 instructions produce from the Database the program found, the
\* k-th being the one that fails, and the response is the error alone.
C10_NoRollback ==
    \A w \in Workers :
        (pc[w] = "done" /\ vm[w].status = "error") =>
            /\ steps[w] >= 1
            /\ dbAtReturn[w] =
                   RunSteps(VmInit(Compiled(w)), dbAtStart[w], steps[w] - 1).db
            /\ RunSteps(VmInit(Compiled(w)), dbAtStart[w], steps[w] - 1).vm.status
                   = "running"
            /\ resp[w] = [message |-> vm[w].err, data |-> <<>>]

\* C10 witness: a program failed after it had written to the Database and had
\* collected an identity; the write is there and the response is the error.
C10_Witness ==
    \E w \in Workers :
        /\ pc[w] = "done"
        /\ vm[w].status = "error"
        /\ vm[w].result # <<>>
        /\ dbAtReturn[w] # dbAtStart[w]
        /\ db = dbAtReturn[w]

\* worker w is about to execute the instruction op, the k-th value from the
\* top of its stack being an identity
About(w, op, k) ==
    /\ pc[w] = "exec"
    /\ vm[w].status = "running"
    /\ At(vm[w].program, vm[w].i).op = op
    /\ Len(vm[w].stack) >= k
    /\ Top(vm[w].stack, k).tag = "Id"

\* the identities the instruction worker w executes appends to the result set
Appended(w) == SubSeq(vm'[w].result, Len(vm[w].result) + 1, Len(vm'[w].result))

\* the result set of worker w grows at its end, if it changes at all
Grows(w) ==
    /\ Len(vm'[w].result) >= Len(vm[w].result)
    /\ SubSeq(vm'[w].result, 1, Len(vm[w].result)) = vm[w].result

\* C11: Select on an identity whose table or whose row does not exist ends the
\* program with a not-found error and adds nothing to the result set; Select
\* on an existing (table, row) appends exactly that identity.
C11_SelectFindsOrFails ==
    [][\A w \in Workers :
          (About(w, "Select", 1) /\ vm'[w] # vm[w]) =>
              LET id == Top(vm[w].stack, 1) IN
              IF id.table \in DOMAIN db /\ id.row \in DOMAIN db[id.table]
              THEN /\ vm'[w].status # "error"
                   /\ vm'[w].result = Append(vm[w].result, id)
              ELSE /\ vm'[w].status = "error"
                   /\ vm'[w].err \in {"table", "record"}
                   /\ vm'[w].result = vm[w].result]_vars

\* C11 witness: a Select has failed on a row missing from a table that exists
\* and holds other rows.
C11_Witness ==
    \E w \in Workers :
        /\ pc[w] = "exec"
        /\ vm[w].status = "error"
        /\ vm[w].err = "record"
        /\ At(vm[w].program, vm[w].i).op = "Select"
        /\ db[Top(vm[w].stack, 1).table] # EmptyMap

\* the set of the values of a sequence
Elems(seq) == {seq[k] : k \in 1..Len(seq)}

\* C12: SelectAll on a popped identity (t, r) whose table exists appends
\* exactly one identity (t, row) for every row the table t holds, and no
\* identity of any other table; r plays no part in it, whether or not r is a
\* row of t.
C12_SelectAllYieldsTheTable ==
    [][\A w \in Workers :
          (/\ About(w, "SelectAll", 1)
           /\ vm'[w] # vm[w]
           /\ Top(vm[w].stack, 1).table \in DOMAIN db) =>
              LET t == Top(vm[w].stack, 1).table IN
              /\ vm'[w].status # "error"
              /\ Grows(w)
              /\ Len(Appended(w)) = Cardinality(DOMAIN db[t])
              /\ Elems(Appended(w)) = {IdV(t, row) : row \in DOMAIN db[t]}]_vars

\* C12 witness: a SelectAll on (t, 7), 7 not being a row of t, has appended the
\* two rows of t while the table u holds a record too.
C12_Witness ==
    \E w \in Workers :
        /\ pc[w] = "exec"
        /\ vm[w].i >= 1
        /\ At(vm[w].program, vm[w].i - 1).op = "SelectAll"
        /\ req[w].rnd = <<7>>
        /\ Len(vm[w].result) = 2
        /\ 7 \notin DOMAIN db[vm[w].result[1].table]
        /\ \E u \in DOMAIN db : u # vm[w].result[1].table /\ db[u] # EmptyMap

\* worker w is about to execute a Filter that gets as far as scanning its
\* table, every record of which holds its own identity under "id"
Filtering(w) ==
    /\ About(w, "Filter", 4)
    /\ match_predicate(Top(vm[w].stack, 1)) # "none"
    /\ Top(vm[w].stack, 3).tag = "String"
    /\ Top(vm[w].stack, 4).table \in DOMAIN db
    /\ \A r \in DOMAIN db[Top(vm[w].stack, 4).table] :
           db[Top(vm[w].stack, 4).table][r][IdKey] = IdV(Top(vm[w].stack, 4).table, r)

\* p(x, v) on integers
IntPredicate(p, x, v) ==
    CASE p = "eq" -> x = v
      [] p = "lt" -> x < v
      [] p = "le" -> x <= v
      [] p = "gt" -> x > v
      [] p = "ge" -> x >= v

\* C13: Filter on a table t, key k, Integer value v and predicate p among ==,
\* <, <=, >, >=, every record of t holding its own identity under "id",
\* appends exactly the identities of the records of t that have a field k
\* whose Integer value x satisfies p(x, v), each once; a record without the
\* field k is never included.
C13_FilterSelectsByInteger ==
    [][\A w \in Workers :
          (Filtering(w) /\ vm'[w] # vm[w] /\ Top(vm[w].stack, 2).tag = "Int") =>
              LET t == Top(vm[w].stack, 4).table
                  k == ToLower(Top(vm[w].stack, 3).s)
                  v == Top(vm[w].stack, 2).n
                  p == match_predicate(Top(vm[w].stack, 1))
                  matching == {r \in DOMAIN db[t] :
                                 /\ k \in DOMAIN db[t][r]
                                 /\ db[t][r][k].tag = "Int"
                                 /\ IntPredicate(p, db[t][r][k].n, v)}
              IN  /\ Grows(w)
                  /\ Len(Appended(w)) = Cardinality(matching)
                  /\ Elems(Appended(w)) = {IdV(t, r) : r \in matching}]_vars

\* C14: the comparison behind Filter's predicates is decided explicitly for
\* operands of different variants instead of by the declaration order of the
\* variants: with <, <=, > or >= a record whose field under the key is of
\* another variant than the value compared with is not selected.
C14_CrossVariantIsDecided ==
    [][\A w \in Workers :
          (/\ Filtering(w)
           /\ vm'[w] # vm[w]
           /\ match_predicate(Top(vm[w].stack, 1)) \in {"lt", "le", "gt", "ge"}) =>
              LET t == Top(vm[w].stack, 4).table
                  k == ToLower(Top(vm[w].stack, 3).s)
                  v == Top(vm[w].stack, 2)
              IN  \A r \in DOMAIN db[t] :
                      (k \in DOMAIN db[t][r] /\ db[t][r][k].tag # v.tag)
                          => IdV(t, r) \notin Elems(Appended(w))]_vars

\* C19: field keys are matched without regard to letter case and stored in
\* lower case: every stored field name is lower-case; a Set writes its value,
\* as it is, to the field named by its key in lower case, so keys differing
\* only in case write the same field; a Filter with == selects exactly the
\* records whose field named by its key in lower case equals the value
\* exactly (a Text value is not case-folded), and no Filter selects a record
\* lacking that field.
C19_KeysFoldedValuesNot ==
    [][/\ \A t \in DOMAIN db' : \A r \in DOMAIN db'[t] : \A f \in DOMAIN db'[t][r] :
              f = ToLower(f)
       /\ setLog' # setLog =>
              LET e == setLog'[Len(setLog')] IN
              db'[e.rid.table][e.rid.row][ToLower(e.key)] = e.value
       /\ \A w \in Workers :
              (Filtering(w) /\ vm'[w] # vm[w]) =>
                  LET t == Top(vm[w].stack, 4).table
                      k == ToLower(Top(vm[w].stack, 3).s)
                      v == Top(vm[w].stack, 2)
                      having == {r \in DOMAIN db[t] : k \in DOMAIN db[t][r]}
                  IN  /\ Elems(Appended(w)) \subseteq {IdV(t, r) : r \in having}
                      /\ match_predicate(Top(vm[w].stack, 1)) = "eq" =>
                             Elems(Appended(w)) =
                                 {IdV(t, r) : r \in {x \in having : db[t][x][k] = v}}]_vars

\* C19 witness: the Filter `"K" "Bo" "=="` has selected the record whose field
\* k holds the Text Bo, written by a Set with the key "K" or "k".
C19_Witness ==
    \E w \in Workers :
        /\ pc[w] = "exec"
        /\ req[w].tokens = ReqTextFilterSame
        /\ vm[w].status = "ok"
        /\ Len(vm[w].result) = 1
        /\ db[vm[w].result[1].table][vm[w].result[1].row][Kk] = StrV(VBo)

RECURSIVE Unscoped(_, _)
\* the tokens hold an `it` or an `end` met while no range block is open,
\* depth being the blocks open before them
Unscoped(tokens, depth) ==
    IF tokens = <<>> THEN FALSE
    ELSE CASE Head(tokens).kind = "Range" -> Unscoped(Tail(tokens), depth + 1)
           [] Head(tokens).kind = "End" -> depth = 0 \/ Unscoped(Tail(tokens), depth - 1)
           [] Head(tokens).kind = "It" -> depth = 0 \/ Unscoped(Tail(tokens), depth)
           [] OTHER -> Unscoped(Tail(tokens), depth)

\* how many tokens are of the kind
CountKind(tokens, kind) == Cardinality({k \in 1..Len(tokens) : tokens[k].kind = kind})

\* how many instructions are the operation
CountOp(program, op) == Cardinality({k \in 1..Len(program) : program[k].op = op})

\* worker w has read a request
Received(w) == req[w] # NoReq

\* C15: parse returns an error and no Program whenever the tokens hold an
\* `end` met with no range open, an `it` met with no range open (also after
\* every range has been closed), or a Word; so in a Program returned every
\* `it` was met inside an open range, and each compiled to one It.
C15_ScopeAndWordErrors ==
    \A w \in Workers :
        Received(w) =>
            LET p == Parse(req[w].tokens, req[w].rnd) IN
            /\ (Unscoped(req[w].tokens, 0) \/ CountKind(req[w].tokens, "Word") > 0)
                   => (p.status = "err" /\ p.program = <<>>)
            /\ p.status = "ok" =>
                   CountOp(p.program, "It") = CountKind(req[w].tokens, "It")

\* C15 witness: `range 1 end it`, whose `it` follows the only range's end, has
\* been refused with a compile error.
C15_Witness ==
    \E w \in Workers :
        /\ req[w].tokens = <<KwRange, TInt(1), KwEnd, KwIt>>
        /\ pc[w] = "done"
        /\ resp[w].message = "parse"

\* C16: parse returns a compile error, not a Program and not an abnormal
\* termination, for every token stream in which a `range` is not followed at
\* once by an Int token, `range` as the last token included.
C16_RangeNeedsInt ==
    \A w \in Workers :
        (/\ Received(w)
         /\ \E k \in 1..Len(req[w].tokens) :
               /\ req[w].tokens[k].kind = "Range"
               /\ k = Len(req[w].tokens) \/ req[w].tokens[k + 1].kind # "Int")
            => Parse(req[w].tokens, req[w].rnd).status = "err"

\* C17: every Program parse returns has Start at index 0 and End at its last
\* index; for every Jump, at an index j: its target p is below j and holds a
\* Range, that Range's end is j + 1, j + 1 is an index of the Program, and two
\* Range/Jump pairs are either apart or one inside the other.
C17_ProgramIsWellFormed ==
    \A w \in Workers :
        (Received(w) /\ Parse(req[w].tokens, req[w].rnd).status = "ok") =>
            LET P     == Parse(req[w].tokens, req[w].rnd).program
                jumps == {j \in 0..(Len(P) - 1) : At(P, j).op = "Jump"}
            IN  /\ At(P, 0).op = "Start"
                /\ At(P, Len(P) - 1).op = "End"
                /\ \A j \in jumps :
                       /\ At(P, j).pos >= 0
                       /\ At(P, j).pos < j
                       /\ At(P, At(P, j).pos).op = "Range"
                       /\ At(P, At(P, j).pos).end = j + 1
                       /\ j + 1 < Len(P)
                /\ \A j1, j2 \in jumps :
                       j1 < j2 => \/ j1 < At(P, j2).pos
                                  \/ At(P, j2).pos < At(P, j1).pos

\* C17 witness: the Program of `range 1 range 1 end end`, one block inside
\* another, has run to its end.
C17_Witness ==
    \E w \in Workers :
        /\ req[w].tokens = <<KwRange, TInt(1), KwRange, TInt(1), KwEnd, KwEnd>>
        /\ pc[w] = "exec"
        /\ vm[w].status = "ok"

\* C18: there is one iterator register: only a Range that fires writes it,
\* with its own count, and It pushes what it holds.  So once an inner block
\* has run inside an outer body, an `it` of the outer body after the inner
\* block pushes the last value the inner Range wrote, 1, not the outer loop's
\* current value M; the outer Range sets the register again only when it next
\* fires: `range M do range N do end it end` ends with the stack 1, M-1, .., 1.
C18_SingleIteratorRegister ==
    /\ [][\A w \in Workers :
             (pc[w] = "exec" /\ vm[w].status = "running" /\ vm'[w] # vm[w]) =>
                 LET op == At(vm[w].program, vm[w].i) IN
                 /\ vm'[w].it = IF op.op = "Range" /\ op.value > 0 THEN op.value
                                 ELSE vm[w].it
                 /\ op.op = "It" => vm'[w].stack = Append(vm[w].stack, IntV(vm[w].it))]_vars
    /\ [](\A w \in Workers : \A M \in 2..MaxRange : \A N \in 1..2 :
             (req[w].tokens = ReqShadow(M, N) /\ vm[w].status = "ok") =>
                 vm[w].stack = [k \in 1..M |-> IntV(IF k = 1 THEN 1 ELSE M - k + 1)])

\* C18 witness: `range 3 do range 2 do end it end` has ended with the stack
\* 1, 2, 1, its first `it` having pushed the inner block's last value.
C18_Witness ==
    \E w \in Workers :
        /\ req[w].tokens = ReqShadow(3, 2)
        /\ vm[w].status = "ok"
        /\ vm[w].stack = <<IntV(1), IntV(2), IntV(1)>>

RECURSIVE StripComments(_, _)
\* the text without its comments: the characters from a '#' up to the next
\* line feed, which stays; in_comment says whether the text starts in one
StripComments(text, in_comment) ==
    IF text = <<>> THEN <<>>
    ELSE IF Head(text) = 10 THEN <<10>> \o StripComments(Tail(text), FALSE)
    ELSE IF in_comment \/ Head(text) = 35 THEN StripComments(Tail(text), TRUE)
    ELSE <<Head(text)>> \o StripComments(Tail(text), FALSE)

\* C20: tokenize drops the characters from a '#' up to the next line feed
\* altogether: the tokens of a text are the tokens of the text with its
\* comments removed, whatever the comments hold, double quotes included.
C20_CommentsAreStripped ==
    \A w \in Workers :
        Received(w) => req[w].tokens = tokenize(StripComments(req[w].contents, FALSE))

\* every table, record and field of d is one of e
Within(d, e) ==
    \A t \in DOMAIN d :
        /\ t \in DOMAIN e
        /\ \A r \in DOMAIN d[t] :
               /\ r \in DOMAIN e[t]
               /\ DOMAIN d[t][r] \subseteq DOMAIN e[t][r]

\* e is d but for the field k of the record at (t, r), the table t and that
\* record being created when d lacks them
OnlyFieldChanged(d, e, t, r, k) ==
    /\ DOMAIN e = DOMAIN d \cup {t}
    /\ \A u \in DOMAIN d \ {t} : e[u] = d[u]
    /\ DOMAIN e[t] = (IF t \in DOMAIN d THEN DOMAIN d[t] ELSE {}) \cup {r}
    /\ \A x \in DOMAIN e[t] \ {r} : e[t][x] = d[t][x]
    /\ IF t \in DOMAIN d /\ r \in DOMAIN d[t]
       THEN /\ DOMAIN e[t][r] = DOMAIN d[t][r] \cup {k}
            /\ \A f \in DOMAIN d[t][r] \ {k} : e[t][r][f] = d[t][r][f]
       ELSE DOMAIN e[t][r] = {IdKey, k}

\* C21: only Set mutates the Database: every other instruction, and a Set
\* that fails, leaves it exactly as it was; a Set on (t, r) with the key k
\* changes only the field k (as stored, in lower case) of the record at
\* (t, r), creating the table t and that record when absent; and no step of
\* the system ever removes a table, a record or a field.
C21_OnlySetMutates ==
    [][/\ Within(db, db')
       /\ \A w \in Workers :
              (pc[w] = "exec" /\ vm[w].status = "running" /\ vm'[w] # vm[w]) =>
                  IF At(vm[w].program, vm[w].i).op = "Set" /\ vm'[w].status # "error"
                  THEN OnlyFieldChanged(db, db', Top(vm[w].stack, 3).table,
                                        Top(vm[w].stack, 3).row,
                                        ToLower(Top(vm[w].stack, 2).s))
                  ELSE db' = db]_vars

\* C21 witness: a Set has written a record that already held a field besides
\* "id", in a table of two records.
C21_Witness ==
    /\ Len(setLog) >= 1
    /\ setLog[Len(setLog)].fieldsBefore >= 2
    /\ setLog[Len(setLog)].rowsBefore = 2
    /\ \E w \in Workers : pc[w] = "exec" /\ vm[w].status = "ok"

\* worker w's program has aborted with a runtime error and execute_program
\* is about to return the Err
Aborted(w) == pc[w] = "exec" /\ vm[w].status = "error"

\* C22: a program that aborts with a runtime error releases the Database lock
\* on return, leaving the Database as it is and the Mutex unpoisoned; so a
\* worker that waits for the lock while the program aborts acquires it
\* afterwards, and its program starts on the Database the failed one left.
C22_ErrorReleasesLock ==
    /\ [][\A w \in Workers :
             (Aborted(w) /\ pc'[w] # "exec") =>
                 (lock' = 0 /\ db' = db /\ poisoned' = poisoned /\ dbAtReturn'[w] = db)]_vars
    /\ \A w, v \in Workers :
           (w # v /\ Aborted(w) /\ pc[v] = "wait")
               ~> (pc[v] = "exec" /\ lock = v /\ dbAtStart[v] = dbAtReturn[w])

\* C22 witness: a worker has just acquired the lock after the other's program
\* failed, and starts on the Database the failed program left, which holds
\* what that program wrote before it failed.
C22_Witness ==
    \E w, v \in Workers :
        /\ w # v
        /\ pc[w] = "done" /\ vm[w].status = "error"
        /\ pc[v] = "exec" /\ lock = v /\ steps[v] = 0
        /\ dbAtStart[v] = dbAtReturn[w]
        /\ dbAtReturn[w] # dbAtStart[w]
====
